---- MODULE Spec2Model ----
(***************************************************************************)
(* Model of two Terraform provider resources:                              *)
(*   azurerm_container_app_environment   (ContainerAppEnvironmentResource) *)
(*   azurerm_synapse_workspace_aad_admin (resourceSynapseWorkspaceAADAdmin)*)
(* One resource instance of one of the two kinds is driven through its     *)
(* Create / Read / Update / Delete handlers against a remote management    *)
(* API whose answers (success, not found, failure, absent parts) are       *)
(* chosen nondeterministically.  Every handler is one action.              *)
(*                                                                         *)
(* Conventions: a Go pointer is <<>> (nil) or <<v>>; a Go map is a set of  *)
(* <<key, value>> pairs; a resource ID string is the tuple of its path     *)
(* segments and the empty string ID is <<>>.                               *)
(***************************************************************************)
EXTENDS Integers, Sequences, FiniteSets, TLC

VARIABLES kind, remote, d, last

vars == <<kind, remote, d, last>>

\* ------------------------------------------------------------------ pointers
Nil == <<>>

Ptr(v) == <<v>>

Deref(p) == p[1]

\* utils.NormalizeNilableString: nil becomes "".
NormalizeNilableString(p) == IF p = Nil THEN "" ELSE Deref(p)

\* utils.NormaliseNilableBool: nil becomes false.
NormaliseNilableBool(p) == IF p = Nil THEN FALSE ELSE Deref(p)

\* ------------------------------------------------------------------- bounds
\* How many Log Analytics workspaces a configuration may name.
MaxLogAnalyticsWorkspaces == 1

\* How many logins a Synapse configuration may choose from.
MaxLogins == 2

\* ------------------------------------------------------------------ domains
SubscriptionId == "sub1"

Names == {"env1"}

ResourceGroups == {"rg1"}

\* Locations as the schema hands them to the handlers (already normalised by
\* commonschema.Location's StateFunc).
Locations == {"westeurope"}

\* location.Normalize: lower-cases and strips the spaces.
Normalize(l) == IF l = "West Europe" THEN "westeurope" ELSE l

SubnetIds == {"", "subnet1"}

\* log_analytics_workspace_id values: the segments of a workspace ID.
LogAnalyticsWorkspaceIds ==
    {<<"resourceGroups", "rg1", "workspaces", "law" \o ToString(i)>> :
        i \in 1..MaxLogAnalyticsWorkspaces}

NoString == <<>>

\* map[string]interface{} values of the "tags" field.
TagMaps == {{}, {<<"env", <<"string", "prod">>>>}}

\* tags.Expand: map[string]interface{} -> *map[string]string.
TagsExpand(input) == Ptr({<<p[1], p[2][2]>> : p \in input})

\* tags.Flatten: *map[string]string -> map[string]interface{}; nil is empty.
TagsFlatten(input) ==
    IF input = Nil THEN {} ELSE {<<p[1], <<"string", p[2]>>>> : p \in Deref(input)}

\* ------------------------------------------------ Container App Environment
\* managedenvironments.NewManagedEnvironmentID
NewManagedEnvironmentID(sub, rg, name) ==
    [SubscriptionId |-> sub, ResourceGroupName |-> rg, EnvironmentName |-> name]

\* ManagedEnvironmentId.ID(): the ID string, as its segments.
ManagedEnvironmentIDString(id) ==
    <<"subscriptions", id.SubscriptionId, "resourceGroups", id.ResourceGroupName,
      "providers", "Microsoft.App", "managedEnvironments", id.EnvironmentName>>

\* managedenvironments.ParseManagedEnvironmentID: [err, id].
ParseManagedEnvironmentID(s) ==
    IF /\ Len(s) = 8
       /\ s[1] = "subscriptions" /\ s[3] = "resourceGroups"
       /\ s[5] = "providers" /\ s[6] = "Microsoft.App"
       /\ s[7] = "managedEnvironments"
    THEN [err |-> FALSE, id |-> NewManagedEnvironmentID(s[2], s[4], s[8])]
    ELSE [err |-> TRUE, id |-> NewManagedEnvironmentID("", "", "")]

\* loganalyticsParse.LogAnalyticsWorkspaceID: [err, ResourceGroup, WorkspaceName].
LogAnalyticsWorkspaceID(s) ==
    IF Len(s) = 4 /\ s[1] = "resourceGroups" /\ s[3] = "workspaces"
    THEN [err |-> FALSE, ResourceGroup |-> s[2], WorkspaceName |-> s[4]]
    ELSE [err |-> TRUE, ResourceGroup |-> "", WorkspaceName |-> ""]

\* The zero ContainerAppEnvironmentModel together with the stored ID: the
\* resource data of a resource that does not exist locally.
CAEZero ==
    [id |-> NoString,
     Name |-> "", ResourceGroup |-> "", Location |-> "",
     LogAnalyticsWorkspaceId |-> NoString,
     InfrastructureSubnetId |-> "", InternalLoadBalancerEnabled |-> FALSE,
     Tags |-> {},
     DefaultDomain |-> "", DockerBridgeCidr |-> "", PlatformReservedCidr |-> "",
     PlatformReservedDnsIP |-> "", StaticIP |-> "",
     CreatedAt |-> "", CreatedBy |-> "", CreatedByType |-> "",
     LastModifiedAt |-> "", LastModifiedBy |-> "", LastModifiedByType |-> ""]

\* The configurations the schema (Arguments) admits.
CAEConfigs ==
    [Name : Names, ResourceGroup : ResourceGroups, Location : Locations,
     LogAnalyticsWorkspaceId : LogAnalyticsWorkspaceIds,
     InfrastructureSubnetId : SubnetIds,
     InternalLoadBalancerEnabled : BOOLEAN, Tags : TagMaps]

\* The resource data a Create or Update handler decodes: the prior state with
\* the configured arguments laid over it.
CAEPlan(rd, cfg) ==
    [rd EXCEPT !.Name = cfg.Name, !.ResourceGroup = cfg.ResourceGroup,
               !.Location = cfg.Location,
               !.LogAnalyticsWorkspaceId = cfg.LogAnalyticsWorkspaceId,
               !.InfrastructureSubnetId = cfg.InfrastructureSubnetId,
               !.InternalLoadBalancerEnabled = cfg.InternalLoadBalancerEnabled,
               !.Tags = cfg.Tags]

\* response.WasNotFound: a response is present and its status is 404.
WasNotFound(resp) == resp.status = "404"

\* One remote call of a handler, as the handler saw it.
Call(fn, api, resp) ==
    [fn |-> fn, api |-> api, failed |-> resp.err,
     notFound |-> (resp.err /\ WasNotFound(resp)), resp |-> resp]

\* What a handler run leaves behind.
Outcome(result, rd, rem, calls, fetched, sent) ==
    [result |-> result, d |-> rd, remote |-> rem, calls |-> calls,
     fetched |-> fetched, sent |-> sent]

\* ------------------------------------------------------- the remote entity
\* managedenvironments.VnetConfiguration
VnetConfiguration(subnet, internal, docker, cidr, dns) ==
    [InfrastructureSubnetId |-> subnet, Internal |-> internal,
     DockerBridgeCidr |-> docker, PlatformReservedCidr |-> cidr,
     PlatformReservedDnsIP |-> dns]

\* managedenvironments.ManagedEnvironmentProperties
ManagedEnvironmentProperties(appLogs, vnet, staticIP, domain) ==
    [AppLogsConfiguration |-> appLogs, VnetConfiguration |-> vnet,
     StaticIP |-> staticIP, DefaultDomain |-> domain]

\* managedenvironments.AppLogsConfiguration with its LogAnalyticsConfiguration
AppLogsConfiguration(customerId, sharedKey) ==
    [Destination |-> Ptr("log-analytics"),
     LogAnalyticsConfiguration |->
         Ptr([CustomerId |-> customerId, SharedKey |-> sharedKey])]

\* managedenvironments.ManagedEnvironment
ManagedEnvironment(location, name, props, sysData, tags) ==
    [Location |-> location, Name |-> name, Properties |-> props,
     SystemData |-> sysData, Tags |-> tags]

\* A SystemData block as the service fills it.
SystemDataValue ==
    [CreatedAt |-> "t0", CreatedBy |-> "creator", CreatedByType |-> "User",
     LastModifiedAt |-> "t1", LastModifiedBy |-> "editor",
     LastModifiedbyType |-> "Application"]

\* Entities that may exist remotely before the resource is managed here: a
\* fully populated one, and ones with optional parts absent.
CAEExistingEntities ==
    {ManagedEnvironment("West Europe", Ptr("env1"),
        Ptr(ManagedEnvironmentProperties(
            Ptr(AppLogsConfiguration(Ptr("cust1"), Nil)),
            Ptr(VnetConfiguration(Ptr("subnet1"), Ptr(TRUE), Ptr("10.1.0.1/16"),
                                  Ptr("10.2.0.0/16"), Ptr("10.2.0.10"))),
            Ptr("20.0.0.1"), Ptr("env1.example.io"))),
        Ptr(SystemDataValue), Ptr({<<"env", "prod">>})),
     ManagedEnvironment("westeurope", Nil, Nil, Nil, Nil),
     ManagedEnvironment("westeurope", Ptr("env1"),
        Ptr(ManagedEnvironmentProperties(Nil, Nil, Nil, Ptr("env1.example.io"))),
        Ptr(SystemDataValue), Ptr({})),
     ManagedEnvironment("West Europe", Ptr("env1"),
        Ptr(ManagedEnvironmentProperties(Nil,
            Ptr(VnetConfiguration(Nil, Nil, Nil, Nil, Nil)), Ptr("20.0.0.1"), Nil)),
        Nil, Ptr({<<"env", "prod">>}))}

\* ------------------------------------------------------- remote responses
\* client.Get on the entity: 404 when it is absent; the entity, or a 200
\* without a model, when it is present; or a failure.
GetResponses(rem) ==
    (IF rem = Nil
        THEN {[err |-> TRUE, status |-> "404", Model |-> Nil]}
        ELSE {[err |-> FALSE, status |-> "200", Model |-> rem],
              [err |-> FALSE, status |-> "200", Model |-> Nil]})
    \cup {[err |-> TRUE, status |-> "500", Model |-> Nil]}

\* logAnalyticsClient.Get: a failure, or a workspace whose properties or
\* customer ID may be absent.
WorkspaceResponses ==
    {[err |-> TRUE, status |-> "500", WorkspaceProperties |-> Nil],
     [err |-> TRUE, status |-> "404", WorkspaceProperties |-> Nil],
     [err |-> FALSE, status |-> "200", WorkspaceProperties |-> Nil],
     [err |-> FALSE, status |-> "200",
      WorkspaceProperties |-> Ptr([CustomerID |-> Nil])]}
    \cup {[err |-> FALSE, status |-> "200",
           WorkspaceProperties |-> Ptr([CustomerID |-> Ptr(c)])] :
            c \in {"cust1", "cust2"}}

\* sharedKeyClient.GetSharedKeys: a failure, or keys whose primary may be absent.
SharedKeysResponses ==
    {[err |-> TRUE, status |-> "500", PrimarySharedKey |-> Nil],
     [err |-> FALSE, status |-> "200", PrimarySharedKey |-> Nil],
     [err |-> FALSE, status |-> "200", PrimarySharedKey |-> Ptr("key1")]}

\* A mutating call (CreateOrUpdateThenPoll, DeleteThenPoll, CreateOrUpdate,
\* Delete, WaitForCompletionRef): it succeeds or fails.
MutateResponses ==
    {[err |-> FALSE, status |-> "200"], [err |-> TRUE, status |-> "500"],
     [err |-> TRUE, status |-> "404"]}

\* The answers of calls that are not made.
NoWorkspaceResponse == [err |-> FALSE, status |-> "none", WorkspaceProperties |-> Nil]

NoSharedKeysResponse == [err |-> FALSE, status |-> "none", PrimarySharedKey |-> Nil]

NoMutateResponse == [err |-> TRUE, status |-> "none"]

NoSynGetResponse == [err |-> TRUE, status |-> "none", AadAdminProperties |-> Nil]

\* The answers to choose from for the k-th call of a handler run: those in
\* all when the run, tried with the later calls unanswered, gets as far as
\* making that call, and the unanswered one otherwise.
Answers(tried, k, all, none) == IF Len(tried.calls) >= k THEN all ELSE {none}

\* ------------------------------------- ContainerAppEnvironmentResource.Create
\* Faulty variant: the tags of the configuration are not sent.
CAEBuildManagedEnvironment_NoTags(cfg, customerId, sharedKey) ==
    ManagedEnvironment(cfg.Location, Ptr(cfg.Name),
        Ptr(ManagedEnvironmentProperties(
            Ptr(AppLogsConfiguration(customerId, sharedKey)),
            Ptr(IF cfg.InfrastructureSubnetId # ""
                THEN VnetConfiguration(Ptr(cfg.InfrastructureSubnetId),
                                       Ptr(cfg.InternalLoadBalancerEnabled),
                                       Nil, Nil, Nil)
                ELSE VnetConfiguration(Nil, Nil, Nil, Nil, Nil)),
            Nil, Nil)),
        Nil, Nil)

\* Faulty variant: the primary shared key is not put into the payload.
CAEBuildManagedEnvironment_NoKey(cfg, customerId, sharedKey) ==
    ManagedEnvironment(cfg.Location, Ptr(cfg.Name),
        Ptr(ManagedEnvironmentProperties(
            Ptr(AppLogsConfiguration(customerId, Nil)),
            Ptr(IF cfg.InfrastructureSubnetId # ""
                THEN VnetConfiguration(Ptr(cfg.InfrastructureSubnetId),
                                       Ptr(cfg.InternalLoadBalancerEnabled),
                                       Nil, Nil, Nil)
                ELSE VnetConfiguration(Nil, Nil, Nil, Nil, Nil)),
            Nil, Nil)),
        Nil, TagsExpand(cfg.Tags))

\* The ManagedEnvironment assembled from the configuration, the workspace's
\* customer ID and the primary shared key.
CAEBuildManagedEnvironment(cfg, customerId, sharedKey) ==
    LET vnet == IF cfg.InfrastructureSubnetId # ""
                THEN VnetConfiguration(Ptr(cfg.InfrastructureSubnetId),
                                       Ptr(cfg.InternalLoadBalancerEnabled),
                                       Nil, Nil, Nil)
                ELSE VnetConfiguration(Nil, Nil, Nil, Nil, Nil)
    IN ManagedEnvironment(cfg.Location, Ptr(cfg.Name),
           Ptr(ManagedEnvironmentProperties(
               Ptr(AppLogsConfiguration(customerId, sharedKey)),
               Ptr(vnet), Nil, Nil)),
           Nil, TagsExpand(cfg.Tags))

\* Faulty variant: the ID is stored before CreateOrUpdateThenPoll has answered.
CAECreateFunc_EarlyId(rd, cfg, rem, rGet, rLaw, rKeys, rCou) ==
    LET id == NewManagedEnvironmentID(SubscriptionId, cfg.ResourceGroup, cfg.Name)
        c1 == <<Call("Create", "Get", rGet)>>
        c2 == Append(c1, Call("Create", "WorkspaceGet", rLaw))
        c3 == Append(c2, Call("Create", "GetSharedKeys", rKeys))
        c4 == Append(c3, Call("Create", "CreateOrUpdateThenPoll", rCou))
        withId == [CAEPlan(rd, cfg) EXCEPT !.id = ManagedEnvironmentIDString(id)]
    IN IF rGet.err /\ ~WasNotFound(rGet)
       THEN Outcome("error", rd, rem, c1, rGet.Model, Nil)
       ELSE IF ~WasNotFound(rGet)
       THEN Outcome("import", rd, rem, c1, rGet.Model, Nil)
       ELSE IF rLaw.err \/ rLaw.WorkspaceProperties = Nil
       THEN Outcome("error", rd, rem, c2, rGet.Model, Nil)
       ELSE IF Deref(rLaw.WorkspaceProperties).CustomerID = Nil
       THEN Outcome("error", rd, rem, c2, rGet.Model, Nil)
       ELSE IF rKeys.err \/ rKeys.PrimarySharedKey = Nil
       THEN Outcome("error", rd, rem, c3, rGet.Model, Nil)
       ELSE LET managedEnvironment ==
                    CAEBuildManagedEnvironment(cfg,
                        Deref(rLaw.WorkspaceProperties).CustomerID,
                        rKeys.PrimarySharedKey)
            IN IF rCou.err
               THEN Outcome("error", withId, rem, c4, rGet.Model,
                            Ptr(managedEnvironment))
               ELSE Outcome("ok", withId, Ptr(managedEnvironment), c4, rGet.Model,
                            Ptr(managedEnvironment))

\* Create: rd is the resource data (no ID yet), cfg the configuration decoded
\* from it, rem the remote entity, and rGet, rLaw, rKeys, rCou the answers
\* of the existence check, the workspace lookup, the shared-keys lookup and
\* CreateOrUpdateThenPoll.
CAECreateFunc(rd, cfg, rem, rGet, rLaw, rKeys, rCou) ==
    LET id == NewManagedEnvironmentID(SubscriptionId, cfg.ResourceGroup, cfg.Name)
        logAnalyticsId == LogAnalyticsWorkspaceID(cfg.LogAnalyticsWorkspaceId)
        c1 == <<Call("Create", "Get", rGet)>>
        c2 == Append(c1, Call("Create", "WorkspaceGet", rLaw))
        c3 == Append(c2, Call("Create", "GetSharedKeys", rKeys))
        c4 == Append(c3, Call("Create", "CreateOrUpdateThenPoll", rCou))
    IN IF rGet.err /\ ~WasNotFound(rGet)
       THEN Outcome("error", rd, rem, c1, rGet.Model, Nil)
       ELSE IF ~WasNotFound(rGet)
       THEN Outcome("import", rd, rem, c1, rGet.Model, Nil)
       ELSE IF logAnalyticsId.err
       THEN Outcome("error", rd, rem, c1, rGet.Model, Nil)
       ELSE IF rLaw.err \/ rLaw.WorkspaceProperties = Nil
       THEN Outcome("error", rd, rem, c2, rGet.Model, Nil)
       ELSE IF Deref(rLaw.WorkspaceProperties).CustomerID = Nil
       THEN Outcome("error", rd, rem, c2, rGet.Model, Nil)
       ELSE IF rKeys.err
       THEN Outcome("error", rd, rem, c3, rGet.Model, Nil)
       ELSE IF rKeys.PrimarySharedKey = Nil
       THEN Outcome("error", rd, rem, c3, rGet.Model, Nil)
       ELSE LET managedEnvironment ==
                    CAEBuildManagedEnvironment(cfg,
                        Deref(rLaw.WorkspaceProperties).CustomerID,
                        rKeys.PrimarySharedKey)
            IN IF rCou.err
               THEN Outcome("error", rd, rem, c4, rGet.Model, Ptr(managedEnvironment))
               ELSE Outcome("ok",
                            [CAEPlan(rd, cfg) EXCEPT !.id = ManagedEnvironmentIDString(id)],
                            Ptr(managedEnvironment), c4, rGet.Model,
                            Ptr(managedEnvironment))

\* --------------------------------------- ContainerAppEnvironmentResource.Read
\* The null-guarded flattening of a fetched model into the state model.
CAEFlatten(id, model) ==
    IF model = Nil THEN CAEZero
    ELSE LET m == Deref(model)
             props == m.Properties
             vnet == IF props = Nil THEN Nil ELSE Deref(props).VnetConfiguration
             sysData == m.SystemData
             hasVnet == vnet # Nil
         IN [CAEZero EXCEPT
              !.Name = id.EnvironmentName,
              !.ResourceGroup = id.ResourceGroupName,
              !.Location = Normalize(m.Location),
              !.Tags = TagsFlatten(m.Tags),
              !.InfrastructureSubnetId =
                  IF hasVnet THEN NormalizeNilableString(Deref(vnet).InfrastructureSubnetId)
                  ELSE "",
              !.InternalLoadBalancerEnabled =
                  IF hasVnet THEN NormaliseNilableBool(Deref(vnet).Internal) ELSE FALSE,
              !.DockerBridgeCidr =
                  IF hasVnet THEN NormalizeNilableString(Deref(vnet).DockerBridgeCidr)
                  ELSE "",
              !.PlatformReservedCidr =
                  IF hasVnet THEN NormalizeNilableString(Deref(vnet).PlatformReservedCidr)
                  ELSE "",
              !.PlatformReservedDnsIP =
                  IF hasVnet THEN NormalizeNilableString(Deref(vnet).PlatformReservedDnsIP)
                  ELSE "",
              !.StaticIP =
                  IF props # Nil THEN NormalizeNilableString(Deref(props).StaticIP) ELSE "",
              !.DefaultDomain =
                  IF props # Nil THEN NormalizeNilableString(Deref(props).DefaultDomain)
                  ELSE "",
              !.CreatedAt = IF sysData # Nil THEN Deref(sysData).CreatedAt ELSE "",
              !.CreatedBy = IF sysData # Nil THEN Deref(sysData).CreatedBy ELSE "",
              !.CreatedByType = IF sysData # Nil THEN Deref(sysData).CreatedByType ELSE "",
              !.LastModifiedAt = IF sysData # Nil THEN Deref(sysData).LastModifiedAt ELSE "",
              !.LastModifiedBy = IF sysData # Nil THEN Deref(sysData).LastModifiedBy ELSE "",
              !.LastModifiedByType =
                  IF sysData # Nil THEN Deref(sysData).LastModifiedbyType ELSE ""]

\* Faulty variant: log_analytics_workspace_id is not carried over from the resource data.
CAEKeepLogAnalyticsWorkspaceId_Dropped(state, rd) == state

\* log_analytics_workspace_id cannot be read back: it is taken from the
\* resource data when that holds a non-empty value.
CAEKeepLogAnalyticsWorkspaceId(state, rd) ==
    IF rd.LogAnalyticsWorkspaceId # NoString
    THEN [state EXCEPT !.LogAnalyticsWorkspaceId = rd.LogAnalyticsWorkspaceId]
    ELSE state

\* Read: rd is the resource data (with the stored ID), rGet the answer of Get.
CAEReadFunc(rd, rem, rGet) ==
    LET parsed == ParseManagedEnvironmentID(rd.id)
        c1 == <<Call("Read", "Get", rGet)>>
    IN IF parsed.err
       THEN Outcome("error", rd, rem, <<>>, Nil, Nil)
       ELSE IF rGet.err
       THEN IF WasNotFound(rGet)
            THEN Outcome("gone", CAEZero, rem, c1, rGet.Model, Nil)
            ELSE Outcome("error", rd, rem, c1, rGet.Model, Nil)
       ELSE LET state == CAEKeepLogAnalyticsWorkspaceId(
                             CAEFlatten(parsed.id, rGet.Model), rd)
            IN Outcome("ok", [state EXCEPT !.id = rd.id], rem, c1, rGet.Model, Nil)

\* ------------------------------------- ContainerAppEnvironmentResource.Delete
\* Faulty variant: a failure of DeleteThenPoll is swallowed.
CAEDeleteFunc_Swallow(rd, rem, rDel) ==
    IF ParseManagedEnvironmentID(rd.id).err
    THEN Outcome("error", rd, rem, <<>>, Nil, Nil)
    ELSE Outcome("ok", CAEZero, IF rDel.err THEN rem ELSE Nil,
                 <<Call("Delete", "DeleteThenPoll", rDel)>>, Nil, Nil)

\* Delete: rDel is the answer of DeleteThenPoll.  After a successful delete
\* the resource is dropped from local state.
CAEDeleteFunc(rd, rem, rDel) ==
    LET parsed == ParseManagedEnvironmentID(rd.id)
        c1 == <<Call("Delete", "DeleteThenPoll", rDel)>>
    IN IF parsed.err
       THEN Outcome("error", rd, rem, <<>>, Nil, Nil)
       ELSE IF rDel.err
       THEN Outcome("error", rd, rem, c1, Nil, Nil)
       ELSE Outcome("ok", CAEZero, Nil, c1, Nil, Nil)

\* ------------------------------------- ContainerAppEnvironmentResource.Update
\* metadata.ResourceData.HasChange("tags"): the planned tags differ from the
\* prior state's.
CAEHasChangeTags(rd, cfg) == rd.Tags # cfg.Tags

\* Faulty variant: the tags are always taken from the configuration.
CAEUpdatePayload_AlwaysTags(rd, cfg, model) ==
    [model EXCEPT !.Tags = TagsExpand(cfg.Tags)]

\* Faulty variant: the location is taken from the configuration too.
CAEUpdatePayload_Location(rd, cfg, model) ==
    [(IF CAEHasChangeTags(rd, cfg)
      THEN [model EXCEPT !.Tags = TagsExpand(cfg.Tags)]
      ELSE model) EXCEPT !.Location = cfg.Location]

\* The model Update sends: the fetched model, its Tags replaced when changed.
CAEUpdatePayload(rd, cfg, model) ==
    IF CAEHasChangeTags(rd, cfg)
    THEN [model EXCEPT !.Tags = TagsExpand(cfg.Tags)]
    ELSE model

\* Update: rd is the prior resource data, cfg the planned configuration,
\* rGet and rCou the answers of Get and CreateOrUpdateThenPoll.  A fetched
\* response without a model is dereferenced: the handler panics, and the
\* prior resource data stays.  When the handler returns, with or without an
\* error, the resource data it decoded (the plan) is what is kept.
CAEUpdateFunc(rd, cfg, rem, rGet, rCou) ==
    LET parsed == ParseManagedEnvironmentID(rd.id)
        c1 == <<Call("Update", "Get", rGet)>>
        c2 == Append(c1, Call("Update", "CreateOrUpdateThenPoll", rCou))
    IN IF parsed.err
       THEN Outcome("error", rd, rem, <<>>, Nil, Nil)
       ELSE IF rGet.err
       THEN Outcome("error", CAEPlan(rd, cfg), rem, c1, rGet.Model, Nil)
       ELSE IF rGet.Model = Nil
       THEN Outcome("panic", rd, rem, c1, rGet.Model, Nil)
       ELSE LET payload == CAEUpdatePayload(rd, cfg, Deref(rGet.Model))
            IN IF rCou.err
               THEN Outcome("error", CAEPlan(rd, cfg), rem, c2, rGet.Model, Ptr(payload))
               ELSE Outcome("ok", CAEPlan(rd, cfg), Ptr(payload), c2, rGet.Model,
                            Ptr(payload))

\* ------------------------------------------------ Synapse Workspace AAD Admin
\* parse.NewWorkspaceID
NewWorkspaceID(sub, rg, name) ==
    [SubscriptionId |-> sub, ResourceGroup |-> rg, Name |-> name]

\* WorkspaceId.ID(): the ID string, as its segments.
WorkspaceIDString(id) ==
    <<"subscriptions", id.SubscriptionId, "resourceGroups", id.ResourceGroup,
      "providers", "Microsoft.Synapse", "workspaces", id.Name>>

\* parse.WorkspaceID: [err, id].
ParseWorkspaceID(s) ==
    IF /\ Len(s) = 8
       /\ s[1] = "subscriptions" /\ s[3] = "resourceGroups"
       /\ s[5] = "providers" /\ s[6] = "Microsoft.Synapse" /\ s[7] = "workspaces"
    THEN [err |-> FALSE, id |-> NewWorkspaceID(s[2], s[4], s[8])]
    ELSE [err |-> TRUE, id |-> NewWorkspaceID("", "", "")]

\* parse.NewWorkspaceAADAdminID
NewWorkspaceAADAdminID(sub, rg, workspace, name) ==
    [SubscriptionId |-> sub, ResourceGroup |-> rg, WorkspaceName |-> workspace,
     AdministratorName |-> name]

\* WorkspaceAADAdminId.ID(): the ID string, as its segments.
WorkspaceAADAdminIDString(id) ==
    <<"subscriptions", id.SubscriptionId, "resourceGroups", id.ResourceGroup,
      "providers", "Microsoft.Synapse", "workspaces", id.WorkspaceName,
      "administrators", id.AdministratorName>>

\* parse.WorkspaceAADAdminID: [err, id].
ParseWorkspaceAADAdminID(s) ==
    IF /\ Len(s) = 10
       /\ s[1] = "subscriptions" /\ s[3] = "resourceGroups"
       /\ s[5] = "providers" /\ s[6] = "Microsoft.Synapse" /\ s[7] = "workspaces"
       /\ s[9] = "administrators"
    THEN [err |-> FALSE, id |-> NewWorkspaceAADAdminID(s[2], s[4], s[8], s[10])]
    ELSE [err |-> TRUE, id |-> NewWorkspaceAADAdminID("", "", "", "")]

\* The resource data of a resource that does not exist locally.
SynZero ==
    [id |-> NoString, synapse_workspace_id |-> NoString,
     login |-> "", object_id |-> "", tenant_id |-> ""]

\* The configurations the Schema admits.
SynConfigs ==
    [synapse_workspace_id : {WorkspaceIDString(NewWorkspaceID(SubscriptionId, "rg1", "ws1"))},
     login : {"login" \o ToString(i) : i \in 1..MaxLogins}, object_id : {"oid1", "oid2"}, tenant_id : {"tid1"}]

\* The resource data CreateUpdate reads with d.Get: the prior state with the
\* configured fields laid over it.
SynPlan(rd, cfg) ==
    [rd EXCEPT !.synapse_workspace_id = cfg.synapse_workspace_id,
               !.login = cfg.login, !.object_id = cfg.object_id,
               !.tenant_id = cfg.tenant_id]

\* synapse.AadAdminProperties
AadAdminProperties(tenant, login, type, sid) ==
    [TenantID |-> tenant, Login |-> login, AdministratorType |-> type, Sid |-> sid]

\* synapse.WorkspaceAadAdminInfo
WorkspaceAadAdminInfo(props) == [AadAdminProperties |-> props]

\* Admins that may be set remotely before the resource is managed here.
SynExistingEntities ==
    {WorkspaceAadAdminInfo(Nil),
     WorkspaceAadAdminInfo(Ptr(AadAdminProperties(
         Ptr("tid1"), Ptr("login1"), Ptr("ActiveDirectory"), Ptr("oid1")))),
     WorkspaceAadAdminInfo(Ptr(AadAdminProperties(
         Nil, Nil, Ptr("ActiveDirectory"), Nil)))}

\* client.Get on the admin: 404 (an empty result) when it is absent, the
\* admin when it is present, or a failure.
SynGetResponses(rem) ==
    (IF rem = Nil
        THEN {[err |-> TRUE, status |-> "404", AadAdminProperties |-> Nil]}
        ELSE {[err |-> FALSE, status |-> "200",
               AadAdminProperties |-> Deref(rem).AadAdminProperties]})
    \cup {[err |-> TRUE, status |-> "500", AadAdminProperties |-> Nil]}

\* utils.ResponseWasNotFound
ResponseWasNotFound(resp) == resp.status = "404"

\* d.Set of a *string: nil is stored as "".
DSetString(p) == IF p = Nil THEN "" ELSE Deref(p)

\* resourceSynapseWorkspaceAADAdminRead: rd is the resource data (with the
\* stored ID), rGet the answer of Get.  AadAdminProperties is dereferenced
\* unguarded: when it is nil the handler panics.
SynReadFunc(rd, rem, rGet) ==
    LET parsed == ParseWorkspaceAADAdminID(rd.id)
        c1 == <<Call("Read", "Get", rGet)>>
        fetched == IF rGet.err THEN Nil
                   ELSE Ptr(WorkspaceAadAdminInfo(rGet.AadAdminProperties))
    IN IF parsed.err
       THEN Outcome("error", rd, rem, <<>>, Nil, Nil)
       ELSE IF rGet.err /\ ~ResponseWasNotFound(rGet)
       THEN Outcome("error", rd, rem, c1, fetched, Nil)
       ELSE IF rGet.AadAdminProperties = Nil
       THEN Outcome("panic", rd, rem, c1, fetched, Nil)
       ELSE LET workspaceID == NewWorkspaceID(parsed.id.SubscriptionId,
                                   parsed.id.ResourceGroup, parsed.id.WorkspaceName)
                props == Deref(rGet.AadAdminProperties)
            IN Outcome("ok",
                   [rd EXCEPT !.synapse_workspace_id = WorkspaceIDString(workspaceID),
                              !.login = DSetString(props.Login),
                              !.object_id = DSetString(props.Sid),
                              !.tenant_id = DSetString(props.TenantID)],
                   rem, c1, fetched, Nil)

\* The WorkspaceAadAdminInfo CreateUpdate assembles from the configuration.
SynBuildAadAdmin(cfg) ==
    WorkspaceAadAdminInfo(Ptr(AadAdminProperties(
        Ptr(cfg.tenant_id), Ptr(cfg.login), Ptr("ActiveDirectory"),
        Ptr(cfg.object_id))))

\* resourceSynapseWorkspaceAADAdminCreateUpdate: rd is the prior resource
\* data, cfg the configuration, rCou and rPoll the answers of CreateOrUpdate
\* and WaitForCompletionRef, rGet the answer of the trailing Read's Get.
\* Resource data without an ID is not kept; a panic keeps the prior data.
SynCreateUpdateFunc(rd, cfg, rem, rCou, rPoll, rGet) ==
    LET parsedWs == ParseWorkspaceID(cfg.synapse_workspace_id)
        workspaceId == parsedWs.id
        aadAdmin == SynBuildAadAdmin(cfg)
        c1 == <<Call("CreateUpdate", "CreateOrUpdate", rCou)>>
        c2 == Append(c1, Call("CreateUpdate", "WaitForCompletionRef", rPoll))
        planned == IF rd.id = NoString THEN rd ELSE SynPlan(rd, cfg)
        id == NewWorkspaceAADAdminID(workspaceId.SubscriptionId,
                  workspaceId.ResourceGroup, workspaceId.Name, "activeDirectory")
        withId == [SynPlan(rd, cfg) EXCEPT !.id = WorkspaceAADAdminIDString(id)]
        read == SynReadFunc(withId, Ptr(aadAdmin), rGet)
    IN IF parsedWs.err
       THEN Outcome("error", rd, rem, <<>>, Nil, Nil)
       ELSE IF rCou.err
       THEN Outcome("error", planned, rem, c1, Nil, Ptr(aadAdmin))
       ELSE IF rPoll.err
       THEN Outcome("error", planned, rem, c2, Nil, Ptr(aadAdmin))
       ELSE Outcome(read.result,
                    IF read.result = "panic" THEN rd ELSE read.d,
                    Ptr(aadAdmin), c2 \o read.calls, read.fetched, Ptr(aadAdmin))

\* resourceSynapseWorkspaceAADAdminDelete: rDel and rPoll are the answers of
\* Delete and WaitForCompletionRef.  After a successful delete the resource
\* is dropped from local state.
SynDeleteFunc(rd, rem, rDel, rPoll) ==
    LET parsed == ParseWorkspaceAADAdminID(rd.id)
        c1 == <<Call("Delete", "Delete", rDel)>>
        c2 == Append(c1, Call("Delete", "WaitForCompletionRef", rPoll))
    IN IF parsed.err
       THEN Outcome("error", rd, rem, <<>>, Nil, Nil)
       ELSE IF rDel.err
       THEN Outcome("error", rd, rem, c1, Nil, Nil)
       ELSE IF rPoll.err
       THEN Outcome("error", rd, rem, c2, Nil, Nil)
       ELSE Outcome("ok", SynZero, Nil, c2, Nil, Nil)

\* ------------------------------------------------------------ state machine
NoCfg == <<>>

\* What is remembered of the operation before the last one: the
\* configuration of a Create that succeeded.
Created(l) == IF l.op = "Create" /\ l.result = "ok" THEN Ptr(l.cfg) ELSE Nil

NoLast ==
    [op |-> "none", result |-> "ok", cfg |-> NoCfg, calls |-> <<>>,
     fetched |-> Nil, sent |-> Nil, dPre |-> Nil, remotePre |-> Nil,
     created |-> Nil]

\* A handler has run: its outcome becomes the new remote entity and the new
\* resource data, and the run is recorded.
Apply(op, cfg, out) ==
    /\ remote' = out.remote
    /\ d' = out.d
    /\ last' = [op |-> op, result |-> out.result, cfg |-> cfg, calls |-> out.calls,
                fetched |-> out.fetched, sent |-> out.sent,
                dPre |-> Ptr(d), remotePre |-> remote, created |-> Created(last)]
    /\ UNCHANGED kind

Init ==
    /\ kind \in {"cae", "syn"}
    /\ remote \in {Nil} \cup
          {Ptr(e) : e \in IF kind = "cae" THEN CAEExistingEntities
                          ELSE SynExistingEntities}
    /\ d = IF kind = "cae" THEN CAEZero ELSE SynZero
    /\ last = NoLast

CAECreate ==
    /\ kind = "cae"
    /\ d.id = NoString
    /\ \E cfg \in CAEConfigs, rGet \in GetResponses(remote) :
       \E rLaw \in Answers(CAECreateFunc(d, cfg, remote, rGet, NoWorkspaceResponse,
                                NoSharedKeysResponse, NoMutateResponse),
                            2, WorkspaceResponses, NoWorkspaceResponse) :
       \E rKeys \in Answers(CAECreateFunc(d, cfg, remote, rGet, rLaw,
                                 NoSharedKeysResponse, NoMutateResponse),
                             3, SharedKeysResponses, NoSharedKeysResponse) :
       \E rCou \in Answers(CAECreateFunc(d, cfg, remote, rGet, rLaw, rKeys,
                                NoMutateResponse),
                            4, MutateResponses, NoMutateResponse) :
          Apply("Create", cfg, CAECreateFunc(d, cfg, remote, rGet, rLaw, rKeys, rCou))

CAERead ==
    /\ kind = "cae"
    /\ d.id # NoString
    /\ \E rGet \in GetResponses(remote) :
          Apply("Read", NoCfg, CAEReadFunc(d, remote, rGet))

CAEUpdate ==
    /\ kind = "cae"
    /\ d.id # NoString
    /\ \E cfg \in CAEConfigs, rGet \in GetResponses(remote) :
       \E rCou \in Answers(CAEUpdateFunc(d, cfg, remote, rGet, NoMutateResponse),
                            2, MutateResponses, NoMutateResponse) :
          Apply("Update", cfg, CAEUpdateFunc(d, cfg, remote, rGet, rCou))

CAEDelete ==
    /\ kind = "cae"
    /\ d.id # NoString
    /\ \E rDel \in MutateResponses :
          Apply("Delete", NoCfg, CAEDeleteFunc(d, remote, rDel))

\* Import: the ID that IDValidationFunc accepts is stored; no field is set.
CAEImport ==
    /\ kind = "cae"
    /\ d.id = NoString
    /\ \E name \in Names, rg \in ResourceGroups :
          Apply("Import", NoCfg,
                Outcome("ok",
                    [CAEZero EXCEPT !.id = ManagedEnvironmentIDString(
                        NewManagedEnvironmentID(SubscriptionId, rg, name))],
                    remote, <<>>, Nil, Nil))

SynCreate ==
    /\ kind = "syn"
    /\ d.id = NoString
    /\ \E cfg \in SynConfigs, rCou \in MutateResponses :
       \E rPoll \in Answers(SynCreateUpdateFunc(d, cfg, remote, rCou,
                                 NoMutateResponse, NoSynGetResponse),
                             2, MutateResponses, NoMutateResponse) :
       \E rGet \in Answers(SynCreateUpdateFunc(d, cfg, remote, rCou, rPoll,
                                NoSynGetResponse),
                            3, SynGetResponses(Ptr(SynBuildAadAdmin(cfg))),
                            NoSynGetResponse) :
          Apply("Create", cfg, SynCreateUpdateFunc(d, cfg, remote, rCou, rPoll, rGet))

SynUpdate ==
    /\ kind = "syn"
    /\ d.id # NoString
    /\ \E cfg \in SynConfigs, rCou \in MutateResponses :
       \E rPoll \in Answers(SynCreateUpdateFunc(d, cfg, remote, rCou,
                                 NoMutateResponse, NoSynGetResponse),
                             2, MutateResponses, NoMutateResponse) :
       \E rGet \in Answers(SynCreateUpdateFunc(d, cfg, remote, rCou, rPoll,
                                NoSynGetResponse),
                            3, SynGetResponses(Ptr(SynBuildAadAdmin(cfg))),
                            NoSynGetResponse) :
          Apply("Update", cfg, SynCreateUpdateFunc(d, cfg, remote, rCou, rPoll, rGet))

SynRead ==
    /\ kind = "syn"
    /\ d.id # NoString
    /\ \E rGet \in SynGetResponses(remote) :
          Apply("Read", NoCfg, SynReadFunc(d, remote, rGet))

SynDelete ==
    /\ kind = "syn"
    /\ d.id # NoString
    /\ \E rDel \in MutateResponses :
       \E rPoll \in Answers(SynDeleteFunc(d, remote, rDel, NoMutateResponse),
                             2, MutateResponses, NoMutateResponse) :
          Apply("Delete", NoCfg, SynDeleteFunc(d, remote, rDel, rPoll))

\* Import: the ID the Importer validates is stored; no field is set.
SynImport ==
    /\ kind = "syn"
    /\ d.id = NoString
    /\ Apply("Import", NoCfg,
             Outcome("ok",
                 [SynZero EXCEPT !.id = WorkspaceAADAdminIDString(
                     NewWorkspaceAADAdminID(SubscriptionId, "rg1", "ws1",
                                            "activeDirectory"))],
                 remote, <<>>, Nil, Nil))

Next ==
    \/ CAECreate \/ CAERead \/ CAEUpdate \/ CAEDelete \/ CAEImport
    \/ SynCreate \/ SynRead \/ SynUpdate \/ SynDelete \/ SynImport

Spec == Init /\ [][Next]_vars

\* ------------------------------------------------------------------ claims
\* The resource data the last operation started from.
DPre == Deref(last.dPre)

\* The last operation made at least n remote calls.
Called(n) == Len(last.calls) >= n

\* C1: in both resources, a Read whose Get answers 'not found' signals that
\* the resource is gone (the ID is cleared, no error, no crash).
C1_ReadNotFoundSignalsGone ==
    (last.op = "Read" /\ Called(1) /\ last.calls[1].notFound)
        => (last.result = "gone" /\ d.id = NoString)

\* C2: in both resources Create begins with an existence check; an entity
\* that exists makes Create return the import-required error with no
\* create call, the remote entity unmodified and no ID stored; a create
\* call is made only after a 'not found' answer.
C2_CreateChecksExistence ==
    (last.op = "Create" /\ Called(1))
        => /\ last.calls[1].api = "Get"
           /\ (last.remotePre # Nil /\ ~last.calls[1].failed)
                 => /\ last.result = "import"
                    /\ last.sent = Nil
                    /\ remote = last.remotePre
                    /\ d.id = NoString
           /\ last.sent # Nil => last.calls[1].notFound

\* The configured fields of a Container App Environment as local state
\* holds them, with internal_load_balancer_enabled expected as ilb.
CAERoundTrip(rd, cfg, ilb) ==
    /\ rd.Name = cfg.Name
    /\ rd.ResourceGroup = cfg.ResourceGroup
    /\ rd.Location = cfg.Location
    /\ rd.LogAnalyticsWorkspaceId = cfg.LogAnalyticsWorkspaceId
    /\ rd.InfrastructureSubnetId = cfg.InfrastructureSubnetId
    /\ rd.InternalLoadBalancerEnabled = ilb
    /\ rd.Tags = cfg.Tags

\* The configured fields of a Synapse AAD admin as local state holds them.
SynRoundTrip(rd, cfg) ==
    /\ rd.synapse_workspace_id = cfg.synapse_workspace_id
    /\ rd.login = cfg.login
    /\ rd.object_id = cfg.object_id
    /\ rd.tenant_id = cfg.tenant_id

\* A Read that succeeded right after a Create that succeeded, its Get
\* answering with the entity the remote stores.
ReadAfterCreate ==
    /\ last.op = "Read" /\ last.result = "ok"
    /\ last.created # Nil
    /\ last.fetched = last.remotePre

\* C3 as stated: after a successful Create, a following Read yields every
\* configured field with its configured value, for every configuration.
C3_RoundTrip ==
    /\ (kind = "cae" /\ ReadAfterCreate)
          => CAERoundTrip(d, Deref(last.created),
                          Deref(last.created).InternalLoadBalancerEnabled)
    /\ (kind = "syn" /\ ReadAfterCreate) => SynRoundTrip(d, Deref(last.created))

\* C3 amended: as C3, except that internal_load_balancer_enabled is read
\* back as false when infrastructure_subnet_id is empty.
C3_RoundTripAmended ==
    /\ (kind = "cae" /\ ReadAfterCreate)
          => LET cfg == Deref(last.created)
             IN CAERoundTrip(d, cfg,
                    cfg.InternalLoadBalancerEnabled /\ cfg.InfrastructureSubnetId # "")
    /\ (kind = "syn" /\ ReadAfterCreate) => SynRoundTrip(d, Deref(last.created))
    /\ (kind = "syn" /\ last.op = "Create" /\ last.result = "ok")
          => SynRoundTrip(d, last.cfg)

C3_Witness ==
    /\ kind = "cae" /\ ReadAfterCreate
    /\ Deref(last.created).InfrastructureSubnetId # ""
    /\ Deref(last.created).InternalLoadBalancerEnabled
    /\ Deref(last.created).Tags # {}

\* The Synapse local state shows exactly the admin the remote holds.
SynInSync(rd, rem) ==
    rem = Ptr(WorkspaceAadAdminInfo(Ptr(AadAdminProperties(
              Ptr(rd.tenant_id), Ptr(rd.login), Ptr("ActiveDirectory"),
              Ptr(rd.object_id)))))

C5Exempt(c) == c.notFound /\ c.api = "Get" /\ c.fn \in {"Create", "Read"}

\* C5: every other failed remote call makes the operation return an error
\* and is the last call the operation makes.
C5_FailuresSurfaced ==
    \A i \in 1..Len(last.calls) :
        (last.calls[i].failed /\ ~C5Exempt(last.calls[i]))
            => (last.result = "error" /\ i = Len(last.calls))

C5_Witness ==
    /\ Called(1)
    /\ last.calls[Len(last.calls)].failed
    /\ last.calls[Len(last.calls)].notFound
    /\ ~C5Exempt(last.calls[Len(last.calls)])
    /\ last.result = "error"

\* C6: the model a Container App Environment Update sends equals the model
\* it fetched except for Tags, which are the configured tags exactly when
\* the tags changed; nothing else of the configuration reaches the remote.
C6_UpdateIsTagDiff ==
    (kind = "cae" /\ last.op = "Update")
        => /\ last.sent # Nil =>
                /\ last.fetched # Nil
                /\ Deref(last.sent).Location = Deref(last.fetched).Location
                /\ Deref(last.sent).Name = Deref(last.fetched).Name
                /\ Deref(last.sent).Properties = Deref(last.fetched).Properties
                /\ Deref(last.sent).SystemData = Deref(last.fetched).SystemData
                /\ Deref(last.sent).Tags =
                       IF DPre.Tags # last.cfg.Tags
                       THEN TagsExpand(last.cfg.Tags)
                       ELSE Deref(last.fetched).Tags
           /\ remote = IF last.result = "ok" THEN last.sent ELSE last.remotePre

C6_Witness ==
    /\ kind = "cae" /\ last.op = "Update" /\ last.result = "ok"
    /\ DPre.Tags # last.cfg.Tags
    /\ Deref(last.fetched).Location # last.cfg.Location
    /\ remote # last.remotePre

\* C7: in both resources a Read whose Get succeeds completes, whatever
\* optional parts of the answer are absent, and stores the empty value for
\* each field whose remote source is absent.
C7_ReadNullGuarded ==
    (last.op = "Read" /\ Called(1) /\ ~last.calls[1].failed)
        => /\ last.result = "ok"
           /\ (kind = "cae" /\ last.fetched = Nil)
                 => [d EXCEPT !.id = NoString, !.LogAnalyticsWorkspaceId = NoString]
                        = CAEZero
           /\ (kind = "syn"
                 /\ Deref(last.fetched).AadAdminProperties # Nil
                 /\ Deref(Deref(last.fetched).AadAdminProperties).Login = Nil)
                 => d.login = ""

\* C8 as stated: after a Create, the ID is stored if and only if Create
\* returned success.
C8_IdIffCreateSucceeds ==
    last.op = "Create" => (d.id # NoString <=> last.result = "ok")

\* The last operation made the call api and it succeeded.
Succeeded(api) ==
    \E i \in 1..Len(last.calls) : last.calls[i].api = api /\ ~last.calls[i].failed

\* C8 amended: the ID is stored only after the create call and its poll
\* have succeeded, and a successful Create has stored it; for the Container
\* App Environment it is stored if and only if Create succeeds, while the
\* Synapse admin's Create stores it before its trailing Read, whose error
\* is returned with the ID stored.
C8_IdAfterCreateAndPoll ==
    last.op = "Create"
        => /\ last.result = "ok" => d.id # NoString
           /\ (kind = "cae" /\ d.id # NoString)
                 => (last.result = "ok" /\ Succeeded("CreateOrUpdateThenPoll"))
           /\ (kind = "syn" /\ d.id # NoString)
                 => /\ Succeeded("CreateOrUpdate")
                    /\ Succeeded("WaitForCompletionRef")
                    /\ last.result # "ok" =>
                          (Called(3) /\ last.calls[3].fn = "Read"
                              /\ last.calls[3].failed)

C8_Witness ==
    last.op = "Create" /\ last.result = "ok" /\ d.id # NoString /\ remote = last.sent

\* The names of the calls the last operation made, in order.
Apis == [i \in 1..Len(last.calls) |-> last.calls[i].api]

CAECreateOrder == <<"Get", "WorkspaceGet", "GetSharedKeys", "CreateOrUpdateThenPoll">>

\* C9: Container App Environment Create calls in the order existence check,
\* workspace lookup, shared-keys lookup, create; it creates at most once
\* and only after 'not found', a workspace with a customer ID and a primary
\* shared key, sending exactly these; otherwise it returns an error and
\* mutates nothing.
C9_CreateOrder ==
    (kind = "cae" /\ last.op = "Create")
        => /\ Len(last.calls) <= 4
           /\ Apis = SubSeq(CAECreateOrder, 1, Len(last.calls))
           /\ last.sent # Nil <=> Called(4)
           /\ Called(4) =>
                /\ last.calls[1].notFound
                /\ ~last.calls[2].failed
                /\ last.calls[2].resp.WorkspaceProperties # Nil
                /\ Deref(last.calls[2].resp.WorkspaceProperties).CustomerID # Nil
                /\ ~last.calls[3].failed
                /\ last.calls[3].resp.PrimarySharedKey # Nil
                /\ Deref(Deref(last.sent).Properties).AppLogsConfiguration =
                       Ptr(AppLogsConfiguration(
                           Deref(last.calls[2].resp.WorkspaceProperties).CustomerID,
                           last.calls[3].resp.PrimarySharedKey))
                /\ Deref(Deref(Deref(last.sent).Properties).AppLogsConfiguration).Destination
                       = Ptr("log-analytics")
           /\ ~Called(4) =>
                /\ last.result \in {"error", "import"}
                /\ remote = last.remotePre

C9_Witness ==
    /\ kind = "cae" /\ last.op = "Create" /\ last.result = "ok"
    /\ Called(4) /\ remote = last.sent

\* C10: a Container App Environment Read that succeeds leaves
\* log_analytics_workspace_id as local state held it before, empty or not,
\* whatever the remote entity contains.
C10_ReadKeepsLogAnalyticsWorkspaceId ==
    (kind = "cae" /\ last.op = "Read" /\ last.result = "ok")
        => d.LogAnalyticsWorkspaceId = DPre.LogAnalyticsWorkspaceId

C10_Witness ==
    /\ kind = "cae" /\ last.op = "Read" /\ last.result = "ok"
    /\ last.fetched # Nil
    /\ d.LogAnalyticsWorkspaceId # NoString

====
